---- MODULE Spec2Model ----
(***************************************************************************)
(* Model of scripts/local_deployment_notifier.py: one run of               *)
(* LocalDeploymentNotifier.deploy(), from construction to process exit.    *)
(* Every remote call (event submission, provisioning, component lookup,    *)
(* forge commands, migration trigger) is an input drawn from a small set.  *)
(***************************************************************************)
EXTENDS Integers, Sequences, FiniteSets

\* ------------------------------------------------------------------ bounds
\* Largest number of installations `forge install list` reports.
MaxInst == 2
\* Largest millisecond clock reading; every reading is any value 0..MaxClock,
\* so the clock may stand still or go backwards between two readings.
MaxClock == 1

ClockReadings == 0..MaxClock

\* The reading that names the run is the first one taken in __init__; it is
\* only ever compared for equality, so the earliest and the latest reading of
\* the range stand for it.
RunIdReadings == {0, MaxClock}

\* ------------------------------------------------------------ input domains
\* Responses of the event submission endpoint, as the code distinguishes them:
\* a status code, a 404 whose body carries CREATE_EVENT_SOURCE_NOT_FOUND
\* ("404nf"), and a transport error (requests.post raises).
Responses == {"200", "201", "404nf", "404", "500", "transport"}

\* Responses to a terminal event: the code only tells 200/202 from any other
\* status and from a transport error.
FinalResponses == {"200", "404nf", "transport"}

\* Outcomes of run_sql_migrate's external steps.
MigrationOutcomes ==
    {"no_match", "no_url", "transport", "1xx", "2xx_ok", "2xx_ok_schema",
     "2xx_nojson", "2xx_not_success", "2xx_bad_status", "2xx_pending",
     "3xx", "4xx", "5xx"}

\* The two environment variables main() requires.
Credentials == {"ATLASSIAN_USER_EMAIL", "ATLASSIAN_USER_API_KEY"}

States == {"IN_PROGRESS", "SUCCESSFUL", "FAILED"}

VARIABLES
    environ,                 \* the credential variables that are set
    pc,                      \* position in main() and deploy()
    exit_code,               \* -1 while running, then the process exit code
    exc,                     \* the exception deploy() caught ("none" if none)
    dry_run,                 \* self.dry_run
    deployment_run_id,       \* numeric part of self.deployment_run_id
    base_sequence_number,    \* self.base_sequence_number
    deployed_version,        \* self.deployed_version ("none" = None)
    schema_version,          \* self.schema_version ("none" = None)
    discovered,              \* number of installations discovery returned
    cloud_ids,               \* cloud id of each discovered installation
    installations,           \* self.installations (verified), in discovery order
    in_progress_sent,        \* deploy() local
    deployment_succeeded,    \* deploy() local
    post_deployment_phase,   \* deploy() local
    cur_state,               \* the state argument of send_deployment_event
    idx,                     \* loop position inside the current phase
    successful_installations,\* send_in_progress_notifications local
    failures,                \* send_in_progress_notifications local
    needs_setup,             \* send_in_progress_notifications local
    failed_installations,    \* send_final_notifications local
    events,                  \* every event submission made, in order
    provisioning,            \* every provisioning call made, in order
    deploy_started,          \* forge deploy was run
    migration_outcome,       \* what run_sql_migrate's external steps did ("none" before)
    migration_returned,      \* run_sql_migrate returned without raising
    prep_error,              \* states whose notification preparation raised
    clock,                   \* the clock reading of the latest terminal payload
    github_repo,             \* self.github_repo ("none" = None)
    deployment_start_time,   \* self.deployment_start_time
    description_input,       \* what create_deployment_description reads
    description,             \* the string create_deployment_description returned
    payloads,                \* the payloads create_event_payload returned
    sorted_issues,           \* the argument of _order_children_under_parents
    ordered_issues,          \* what _order_children_under_parents returned
    ordered_keys,            \* the argument of apply_rank
    rank_i,                  \* apply_rank local i
    rank_requests,           \* the bodies apply_rank has PUT, in order
    rank_result              \* how apply_rank ended ("none" while it runs)

vars == <<environ, pc, exit_code, exc, dry_run, deployment_run_id, base_sequence_number,
          deployed_version, schema_version, discovered, cloud_ids, installations,
          in_progress_sent, deployment_succeeded, post_deployment_phase,
          cur_state, idx, successful_installations, failures, needs_setup,
          failed_installations, events, provisioning, deploy_started,
          migration_outcome, migration_returned, prep_error, clock,
          github_repo, deployment_start_time, description_input, description,
          payloads, sorted_issues, ordered_issues, ordered_keys, rank_i,
          rank_requests, rank_result>>

\* The variables of the issue ranking script.
rankerVars == <<sorted_issues, ordered_issues, ordered_keys, rank_i,
                rank_requests, rank_result>>

\* The variables of the description, payload and ranking specifications; a
\* run of deploy() leaves them alone.
composerVars == <<github_repo, deployment_start_time, description_input,
                  description, payloads, rankerVars>>

\* The ranking script before it is run.
RankerAtRest ==
    /\ sorted_issues = <<>> /\ ordered_issues = <<>>
    /\ ordered_keys = <<>> /\ rank_i = 0
    /\ rank_requests = <<>> /\ rank_result = "none"

\* ----------------------------------------------------------------- helpers
Range(s) == {s[k] : k \in 1..Len(s)}

Max(a, b) == IF a >= b THEN a ELSE b

\* The verified installations keep discovery order.
RECURSIVE OrderedSubSeq(_, _)
OrderedSubSeq(n, V) ==
    IF n = 0 THEN <<>>
    ELSE IF n \in V THEN Append(OrderedSubSeq(n - 1, V), n)
         ELSE OrderedSubSeq(n - 1, V)

\* get_all_installations: the cloud ids of the n installations
\* `forge install list` reports, in order.  Nothing removes a repeated cloud
\* id: either every installation has its own, or the second one is installed
\* on the cloud of the first (the same site in another Forge environment).
DiscoveredCloudIds(n) ==
    { [i \in 1..n |-> i], [i \in 1..n |-> IF i = 2 THEN 1 ELSE i] }

\* Verification aborts whenever nothing was verified.
VerificationAborts_WheneverEmpty(n, V) == V = {}

\* Verification never aborts.
VerificationAborts_Never(n, V) == FALSE

\* initialize_installations: the RuntimeError raised when installations were
\* found but none could be verified.
VerificationAborts(n, V) == n > 0 /\ V = {}

\* status_code in [200, 202]
IsSuccess(resp) == resp = "200"

\* ------------------------------------------------------- sequence authority
\* The clock reading taken as it is for a terminal event.
UpdateSequenceNumber_ClockOnly(state, reading) ==
    IF state = "IN_PROGRESS" THEN base_sequence_number ELSE reading

\* create_event_payload: updateSequenceNumber for a state and a clock reading.
UpdateSequenceNumber(state, reading) ==
    IF state = "IN_PROGRESS" THEN base_sequence_number
    ELSE IF reading <= base_sequence_number THEN base_sequence_number + 1
         ELSE reading

\* The per-event number used where the per-run number belongs.
DeploymentSequenceNumber_PerEvent(state, reading) ==
    IF state = "IN_PROGRESS" THEN base_sequence_number
    ELSE IF reading <= base_sequence_number THEN base_sequence_number + 1
         ELSE reading

\* create_event_payload: deploymentProperties.sequenceNumber.
DeploymentSequenceNumber(state, reading) == base_sequence_number

\* The base sequence number used to build the pipeline id.
PipelineId_FromSequenceNumber == base_sequence_number

\* create_event_payload: pipeline.pipelineId, the run id.
PipelineId == deployment_run_id

\* completedAt written for every state.
create_event_payload_AlwaysCompleted(installation, state, reading) ==
    [cloudId              |-> cloud_ids[installation],
     componentId          |-> installation,
     state                |-> state,
     updateSequenceNumber |-> UpdateSequenceNumber(state, reading),
     sequenceNumber       |-> DeploymentSequenceNumber(state, reading),
     pipelineId           |-> PipelineId,
     hasCompletedAt       |-> TRUE]

\* create_event_payload: the payload for one installation.
create_event_payload(installation, state, reading) ==
    [cloudId              |-> cloud_ids[installation],
     componentId          |-> installation,
     state                |-> state,
     updateSequenceNumber |-> UpdateSequenceNumber(state, reading),
     sequenceNumber       |-> DeploymentSequenceNumber(state, reading),
     pipelineId           |-> PipelineId,
     hasCompletedAt       |-> state # "IN_PROGRESS"]

\* validate_event_payload: TRUE when no ValueError is raised.
validate_event_payload(payload, state) ==
    /\ state \in {"SUCCESSFUL", "FAILED"} => payload.hasCompletedAt
    /\ payload.state \in {"IN_PROGRESS", "SUCCESSFUL", "FAILED", "CANCELLED"}
    /\ payload.pipelineId = deployment_run_id

\* One requests.post of an event for an installation, with the response.
Submission(installation, payload, resp) ==
    [inst |-> installation, payload |-> payload, response |-> resp]


\* ------------------------------------------------ notification dispatcher
\* attachEventSource requested whatever createEventSource returned.
create_and_attach_event_source_AttachAlways(installation, createOk, attachOk, at) ==
    [ok |-> createOk /\ attachOk,
     calls |-> << [inst |-> installation, op |-> "create", ok |-> createOk, at |-> at],
                  [inst |-> installation, op |-> "attach", ok |-> attachOk, at |-> at] >>]

\* create_and_attach_event_source: the provisioning calls made and the result.
\* attachEventSource is only requested after createEventSource succeeded.
create_and_attach_event_source(installation, createOk, attachOk, at) ==
    [calls |-> IF createOk
               THEN << [inst |-> installation, op |-> "create", ok |-> TRUE, at |-> at],
                       [inst |-> installation, op |-> "attach", ok |-> attachOk, at |-> at] >>
               ELSE << [inst |-> installation, op |-> "create", ok |-> FALSE, at |-> at] >>,
     ok    |-> createOk /\ attachOk]

\* The event resubmitted whatever provisioning returned.
try_create_event_source_and_retry_Always(installation, payload, createOk, attachOk, resp2, at) ==
    LET prov == create_and_attach_event_source(installation, createOk, attachOk, at)
    IN  [sent |-> IsSuccess(resp2),
         subs |-> << Submission(installation, payload, resp2) >>,
         calls |-> prov.calls]

\* _try_create_event_source_and_retry: provisioning, then one resubmission of
\* the same payload; TRUE only for a 200/202 answer to the resubmission.  A
\* transport error of the resubmission propagates to _handle_404_response.
try_create_event_source_and_retry(installation, payload, createOk, attachOk, resp2, at) ==
    LET prov == create_and_attach_event_source(installation, createOk, attachOk, at)
    IN  IF ~prov.ok
        THEN [sent |-> FALSE, subs |-> <<>>, calls |-> prov.calls]
        ELSE [sent |-> IsSuccess(resp2),
              subs |-> << Submission(installation, payload, resp2) >>,
              calls |-> prov.calls]

\* _handle_404_response: (success, needs_setup).  Every 404 that does not end
\* in a successful resubmission is reported as needs_setup.
handle_404_response(installation, payload, resp, createOk, attachOk, resp2, at) ==
    IF resp = "404nf"
    THEN LET r == try_create_event_source_and_retry(installation, payload,
                                                    createOk, attachOk, resp2, at)
         IN  [success |-> r.sent, needs_setup |-> ~r.sent,
              subs |-> r.subs, calls |-> r.calls]
    ELSE [success |-> FALSE, needs_setup |-> TRUE, subs |-> <<>>, calls |-> <<>>]

\* _process_single_in_progress_notification: (success, needs_setup) plus the
\* submissions and provisioning calls it made.
process_single_in_progress_notification(installation, resp, createOk, attachOk, resp2, at) ==
    LET payload == create_event_payload(installation, "IN_PROGRESS", 0)
        first   == << Submission(installation, payload, resp) >>
    IN  IF resp = "transport"
        THEN [success |-> FALSE, needs_setup |-> FALSE, subs |-> first, calls |-> <<>>]
        ELSE IF resp \in {"404", "404nf"}
        THEN LET h == handle_404_response(installation, payload, resp,
                                          createOk, attachOk, resp2, at + 1)
             IN  [success |-> h.success,
                  needs_setup |-> IF h.success THEN FALSE ELSE h.needs_setup,
                  subs |-> first \o h.subs, calls |-> h.calls]
        ELSE IF ~IsSuccess(resp)
        THEN [success |-> FALSE, needs_setup |-> FALSE, subs |-> first, calls |-> <<>>]
        ELSE [success |-> TRUE, needs_setup |-> FALSE, subs |-> first, calls |-> <<>>]

\* The loop left at the first installation that was not sent the event.
in_progress_loop_continues_StopAtFailure(i, setupList, failureList) ==
    i <= Len(installations) /\ setupList = <<>> /\ failureList = <<>>

\* send_in_progress_notifications: `for installation in self.installations`
\* goes on to the i-th installation whatever the lists hold.
in_progress_loop_continues(i, setupList, failureList) ==
    i <= Len(installations)

\* send_in_progress_notifications: the compensating FAILED events are sent
\* only when the failures list is not empty.
SendsCompensation(setupList, failureList) == failureList # <<>>

\* Compensation addressed to every verified installation.
CompensationTargets_All == installations

\* send_in_progress_notifications: the installations the compensating FAILED
\* events go to.
CompensationTargets == successful_installations

\* Only the send failures abort the phase.
validate_notification_results_FailuresOnly(setupList, failureList) ==
    IF failureList # <<>> THEN "send_failed" ELSE "none"

\* _validate_notification_results: the error it raises, "none" when it returns.
validate_notification_results(setupList, failureList) ==
    IF setupList # <<>> THEN "setup_failed"
    ELSE IF failureList # <<>> THEN "send_failed"
    ELSE "none"

\* _validate_notification_results: the installations the raised error names,
\* by failure kind.  The setup failures are raised first and alone.
abort_error_names(setupList, failureList) ==
    IF setupList # <<>>
    THEN [setup |-> Range(setupList), send |-> {}]
    ELSE [setup |-> {}, send |-> Range(failureList)]

\* The loop left at the first installation whose notification failed.
next_final_index_Break(i, resp) ==
    IF IsSuccess(resp) THEN i + 1 ELSE Len(installations) + 1

\* send_final_notifications: the loop goes on to the next installation after
\* a success, a rejection (continue) and an exception (caught in the loop).
next_final_index(i, resp) == i + 1

\* ------------------------------------------------------------ orchestrator
\* _is_migration_failure, on the message of the caught exception.
is_migration_failure(e) == e = "migration_failed"

\* FAILED sent after every failure, whatever phase it happened in.
should_send_failed_notification_Always(ips, ds, pdp, imf) == TRUE

\* FAILED only for failures after the deploy step succeeded.
should_send_failed_notification_PostDeployOnly(ips, ds, pdp, imf) ==
    ips /\ (imf \/ (pdp /\ ds))

\* _should_send_failed_notification.
should_send_failed_notification(ips, ds, pdp, imf) ==
    ips /\ (~ds \/ imf \/ (pdp /\ ds))

\* The 2xx outcomes whose body is a JSON object.
JsonOutcomes ==
    {"2xx_ok", "2xx_ok_schema", "2xx_not_success", "2xx_bad_status", "2xx_pending"}

\* The fields _validate_migration_response reads from the body of a 2xx
\* outcome (response_data.get with its defaults applied).
MigrationBody(outcome) ==
    [success |-> outcome # "2xx_not_success",
     status  |-> IF outcome = "2xx_bad_status" THEN "FAILED" ELSE "SUCCESS",
     pendingMigrations |-> IF outcome = "2xx_pending" THEN 1 ELSE 0]

\* Pending migrations not looked at.
validate_migration_response_IgnoresPending(body) ==
    body.success /\ body.status = "SUCCESS"

\* _validate_migration_response: TRUE when it returns without raising.
validate_migration_response(body) ==
    /\ body.success
    /\ body.status = "SUCCESS"
    /\ ~(body.pendingMigrations > 0)

\* A client error of the trigger aborts like a server error.
MigrationRaises_ClientErrorAborts(outcome) ==
    \/ outcome \in {"5xx", "4xx", "1xx"}
    \/ outcome \in JsonOutcomes /\ ~validate_migration_response(MigrationBody(outcome))

\* A server error of the trigger treated as a warning, like a client error.
MigrationRaises_ServerErrorWarns(outcome) ==
    \/ outcome = "1xx"
    \/ outcome \in JsonOutcomes /\ ~validate_migration_response(MigrationBody(outcome))

\* _trigger_migration_request / run_sql_migrate: the outcomes after which
\* run_sql_migrate re-raises (a 5xx status, a status below 200, a JSON body
\* that does not validate).
MigrationRaises(outcome) ==
    \/ outcome \in {"5xx", "1xx"}
    \/ outcome \in JsonOutcomes /\ ~validate_migration_response(MigrationBody(outcome))

\* get_web_trigger_url: the default of max_retries.
max_retries == 3

\* get_web_trigger_url: what one run of `forge webtrigger list` yields (the
\* command failed, it reported no URLs, no URL was found in its table, a URL).
AttemptResults == {"command_failed", "no_urls", "no_url_in_output", "url"}

\* get_web_trigger_url: the loop from the given attempt on (attempts count from
\* 0 as in range(max_retries)), results[k] being what the k-th run of the
\* command yields; waits holds the seconds slept so far.
RECURSIVE get_web_trigger_url(_, _, _)
get_web_trigger_url(results, attempt, waits) ==
    IF attempt >= max_retries
    THEN [url |-> FALSE, attempts |-> attempt, waits |-> waits]
    ELSE LET slept == IF attempt > 0 THEN Append(waits, 2 * attempt) ELSE waits
         IN  IF results[attempt + 1] = "url"
             THEN [url |-> TRUE, attempts |-> attempt + 1, waits |-> slept]
             ELSE get_web_trigger_url(results, attempt + 1, slept)

\* get_web_trigger_url: what a call can come to, over everything the runs of
\* the command can yield.
TriggerLookups ==
    { get_web_trigger_url(results, 0, <<>>) :
         results \in [1..max_retries -> AttemptResults] }

\* run_sql_migrate: the outcomes in which the trigger endpoint is POSTed.
MigrationPosts(outcome) == outcome \notin {"none", "no_match", "no_url"}

\* The migration trigger endpoint was POSTed.
migration_invoked == MigrationPosts(migration_outcome)

\* initialize_installations: search_component_by_slug sends one lookup
\* request for every installation discovery returned, in dry-run mode too.
component_lookups == discovered

\* ---------------------------------------------------------------- Init
\* The state after LocalDeploymentNotifier.__init__: run id and base sequence
\* number come from two separate clock readings.
Init ==
    /\ environ \in SUBSET Credentials
    /\ pc = "main"
    /\ exit_code = -1
    /\ exc = "none"
    /\ dry_run \in BOOLEAN
    /\ deployment_run_id = 0
    /\ base_sequence_number = 0
    /\ deployed_version = "none"
    /\ schema_version = "none"
    /\ discovered = 0
    /\ cloud_ids = <<>>
    /\ installations = <<>>
    /\ in_progress_sent = FALSE
    /\ deployment_succeeded = FALSE
    /\ post_deployment_phase = FALSE
    /\ cur_state = "none"
    /\ idx = 0
    /\ successful_installations = <<>>
    /\ failures = <<>>
    /\ needs_setup = <<>>
    /\ failed_installations = <<>>
    /\ events = <<>>
    /\ provisioning = <<>>
    /\ deploy_started = FALSE
    /\ migration_outcome = "none"
    /\ migration_returned = FALSE
    /\ prep_error = {}
    /\ clock = 0
    /\ github_repo = "none"
    /\ deployment_start_time = 0
    /\ description_input = <<>>
    /\ description = <<>>
    /\ payloads = <<>>
    /\ RankerAtRest

\* ------------------------------------------------------ control transfers
\* An exception that reaches deploy()'s except clause.
Raise(kind) ==
    /\ pc' = "handle_failure"
    /\ exc' = kind
    /\ UNCHANGED <<exit_code, in_progress_sent, cur_state>>

\* sys.exit(1) at the end of deploy()'s except clause.
ExitFailure ==
    /\ pc' = "exited"
    /\ exit_code' = 1
    /\ UNCHANGED <<exc, in_progress_sent, cur_state>>

\* send_deployment_event(state) returned normally to its caller.
Return(state) ==
    /\ UNCHANGED <<exc, cur_state>>
    /\ IF state = "IN_PROGRESS"
       THEN pc' = "forge_deploy" /\ in_progress_sent' = TRUE /\ UNCHANGED exit_code
       ELSE IF state = "SUCCESSFUL"
       THEN pc' = "exited" /\ exit_code' = 0 /\ UNCHANGED in_progress_sent
       ELSE pc' = "exited" /\ exit_code' = 1 /\ UNCHANGED in_progress_sent

\* send_deployment_event(state) raised: inside _handle_deployment_failure the
\* exception is caught and the process exits 1, otherwise deploy() catches it.
RaiseFrom(state, kind) ==
    IF state = "FAILED" THEN ExitFailure ELSE Raise(kind)


\* ---------------------------------------------------------------- actions
\* Variables no notification step changes.
runFixed == <<environ, dry_run, deployment_run_id, base_sequence_number, discovered,
              cloud_ids, installations>>

\* Only one of the credentials asked for.
CredentialsPresent_Either(env) == env # {}

\* `not ATLASSIAN_USER_EMAIL or not ATLASSIAN_USER_API_KEY` is false.
CredentialsPresent(env) == Credentials \subseteq env

\* main(): without both credentials the process exits 1; otherwise the
\* notifier is constructed (__init__ reads the clock for the run id and for
\* the base sequence number) and deploy() is entered.
Main ==
    /\ pc = "main"
    /\ UNCHANGED composerVars
    /\ IF CredentialsPresent(environ)
       THEN \E run_id \in RunIdReadings, base \in ClockReadings :
              /\ deployment_run_id' = run_id
              /\ base_sequence_number' = base
              /\ pc' = "load_catalog"
              /\ UNCHANGED exit_code
       ELSE /\ pc' = "exited"
            /\ exit_code' = 1
            /\ UNCHANGED <<deployment_run_id, base_sequence_number>>
    /\ UNCHANGED <<environ, dry_run, discovered, cloud_ids, installations,
                   exc, in_progress_sent, cur_state,
                   deployed_version, schema_version,
                   deployment_succeeded, post_deployment_phase, idx,
                   successful_installations, failures, needs_setup,
                   failed_installations, events, provisioning, deploy_started,
                   migration_outcome, migration_returned, prep_error, clock>>

\* deploy(): load_catalog_info.
LoadCatalogInfo ==
    /\ pc = "load_catalog"
    /\ UNCHANGED composerVars
    /\ \E ok \in BOOLEAN :
         IF ok
         THEN pc' = "initialize" /\ UNCHANGED <<exc, exit_code, in_progress_sent, cur_state>>
         ELSE Raise("catalog")
    /\ UNCHANGED <<runFixed, deployed_version, schema_version,
                   deployment_succeeded, post_deployment_phase, idx,
                   successful_installations, failures, needs_setup,
                   failed_installations, events, provisioning, deploy_started,
                   migration_outcome, migration_returned, prep_error, clock>>

\* initialize_installations: discovery returns n installations, the component
\* lookup succeeds for the installations in V.
InitializeInstallations ==
    /\ pc = "initialize"
    /\ UNCHANGED composerVars
    /\ \E n \in 0..MaxInst : \E V \in SUBSET (1..n) :
       \E clouds \in DiscoveredCloudIds(n) :
         /\ discovered' = n
         /\ cloud_ids' = clouds
         /\ installations' = OrderedSubSeq(n, V)
         /\ IF VerificationAborts(n, V)
            THEN Raise("verification")
            ELSE /\ pc' = "send_event"
                 /\ cur_state' = "IN_PROGRESS"
                 /\ UNCHANGED <<exc, exit_code, in_progress_sent>>
    /\ UNCHANGED <<clock, environ, dry_run, deployment_run_id,
                   base_sequence_number, deployed_version, schema_version,
                   deployment_succeeded, post_deployment_phase, idx,
                   successful_installations, failures, needs_setup,
                   failed_installations, events, provisioning, deploy_started,
                   migration_outcome, migration_returned, prep_error>>

\* send_deployment_event(cur_state), up to the dispatch on the state: returns
\* at once without installations, raises without the credentials and when
\* the description cannot be composed (get_user_name raises when `forge whoami` fails), only prints in
\* dry-run mode.
SendDeploymentEvent ==
    /\ pc = "send_event"
    /\ UNCHANGED composerVars
    /\ UNCHANGED <<runFixed, deployed_version, schema_version,
                   deployment_succeeded, post_deployment_phase,
                   events, provisioning, deploy_started,
                   migration_outcome, migration_returned, clock>>
    /\ IF installations = <<>>
       THEN /\ Return(cur_state)
            /\ UNCHANGED <<idx, successful_installations, failures, needs_setup,
                           failed_installations, prep_error>>
       ELSE IF ~CredentialsPresent(environ)
       THEN /\ RaiseFrom(cur_state, "credentials")
            /\ UNCHANGED <<idx, successful_installations, failures, needs_setup,
                           failed_installations, prep_error>>
       ELSE \E whoami \in BOOLEAN :
              IF ~whoami
              THEN /\ RaiseFrom(cur_state, "whoami")
                   /\ prep_error' = prep_error \cup {cur_state}
                   /\ UNCHANGED <<idx, successful_installations, failures,
                                  needs_setup, failed_installations>>
              ELSE IF dry_run
              THEN /\ Return(cur_state)
                   /\ UNCHANGED <<idx, successful_installations, failures,
                                  needs_setup, failed_installations, prep_error>>
              ELSE /\ idx' = 1
                   /\ IF cur_state = "IN_PROGRESS"
                      THEN /\ pc' = "in_progress_loop"
                           /\ successful_installations' = <<>>
                           /\ failures' = <<>>
                           /\ needs_setup' = <<>>
                           /\ UNCHANGED failed_installations
                      ELSE /\ pc' = "final_loop"
                           /\ failed_installations' = <<>>
                           /\ UNCHANGED <<successful_installations, failures, needs_setup>>
                   /\ UNCHANGED <<exc, exit_code, in_progress_sent, cur_state, prep_error>>

\* send_in_progress_notifications: one pass of the loop over
\* self.installations, then the decision to compensate.
SendInProgressNotifications ==
    /\ pc = "in_progress_loop"
    /\ UNCHANGED composerVars
    /\ UNCHANGED <<runFixed, deployed_version, schema_version,
                   deployment_succeeded, post_deployment_phase,
                   failed_installations, deploy_started, migration_outcome,
                   migration_returned, prep_error,
                   exc, exit_code, in_progress_sent, cur_state, clock>>
    /\ IF in_progress_loop_continues(idx, needs_setup, failures)
       THEN \E resp \in Responses, createOk \in BOOLEAN, attachOk \in BOOLEAN,
               resp2 \in Responses :
              LET inst == installations[idx]
                  r == process_single_in_progress_notification(
                           inst, resp, createOk, attachOk, resp2, Len(events))
              IN  /\ events' = events \o r.subs
                  /\ provisioning' = provisioning \o r.calls
                  /\ successful_installations' =
                        IF r.success THEN Append(successful_installations, inst)
                        ELSE successful_installations
                  /\ needs_setup' =
                        IF ~r.success /\ r.needs_setup THEN Append(needs_setup, inst)
                        ELSE needs_setup
                  /\ failures' =
                        IF ~r.success /\ ~r.needs_setup THEN Append(failures, inst)
                        ELSE failures
                  /\ idx' = idx + 1
                  /\ pc' = pc
       ELSE /\ IF SendsCompensation(needs_setup, failures)
               THEN pc' = "compensate_loop" /\ idx' = 1
               ELSE pc' = "validate" /\ idx' = idx
            /\ UNCHANGED <<events, provisioning, successful_installations,
                           needs_setup, failures>>

\* _send_failed_to_successful_installations: one pass of its loop.  The
\* response is only logged and a transport error is caught.
SendFailedToSuccessfulInstallations ==
    /\ pc = "compensate_loop"
    /\ UNCHANGED composerVars
    /\ UNCHANGED <<runFixed, deployed_version, schema_version,
                   deployment_succeeded, post_deployment_phase,
                   successful_installations, failures, needs_setup,
                   failed_installations, provisioning, deploy_started,
                   migration_outcome, migration_returned, prep_error,
                   exc, exit_code, in_progress_sent, cur_state>>
    /\ IF idx <= Len(CompensationTargets)
       THEN \E reading \in ClockReadings, resp \in FinalResponses :
              /\ events' = Append(events,
                     Submission(CompensationTargets[idx],
                                create_event_payload(CompensationTargets[idx],
                                                     "FAILED", reading), resp))
              /\ clock' = reading
              /\ idx' = idx + 1
              /\ pc' = pc
       ELSE /\ pc' = "validate"
            /\ UNCHANGED <<events, idx, clock>>

\* _validate_notification_results, at the end of
\* send_in_progress_notifications.
ValidateNotificationResults ==
    /\ pc = "validate"
    /\ UNCHANGED composerVars
    /\ LET raised == validate_notification_results(needs_setup, failures)
       IN  IF raised = "none" THEN Return(cur_state) ELSE Raise(raised)
    /\ UNCHANGED <<runFixed, deployed_version, schema_version,
                   deployment_succeeded, post_deployment_phase, idx,
                   successful_installations, failures, needs_setup,
                   failed_installations, events, provisioning, deploy_started,
                   migration_outcome, migration_returned, prep_error, clock>>

\* send_final_notifications: one pass of the loop over self.installations;
\* after the loop _report_failed_notifications only prints.
SendFinalNotifications ==
    /\ pc = "final_loop"
    /\ UNCHANGED composerVars
    /\ UNCHANGED <<runFixed, deployed_version, schema_version,
                   deployment_succeeded, post_deployment_phase,
                   successful_installations, failures, needs_setup,
                   provisioning, deploy_started, migration_outcome,
                   migration_returned, prep_error>>
    /\ IF idx <= Len(installations)
       THEN \E reading \in ClockReadings, resp \in FinalResponses :
              LET inst == installations[idx]
                  payload == create_event_payload(inst, cur_state, reading)
              IN  /\ IF validate_event_payload(payload, cur_state)
                     THEN /\ events' = Append(events, Submission(inst, payload, resp))
                          /\ failed_installations' =
                                IF IsSuccess(resp) THEN failed_installations
                                ELSE Append(failed_installations, inst)
                     ELSE /\ events' = events
                          /\ failed_installations' = Append(failed_installations, inst)
                  /\ idx' = next_final_index(idx, resp)
                  /\ clock' = reading
                  /\ UNCHANGED <<pc, exc, exit_code, in_progress_sent, cur_state>>
       ELSE /\ Return(cur_state)
            /\ UNCHANGED <<events, failed_installations, idx, clock>>

\* run_forge_deploy: the version is read from the output before the exit
\* status of the command is looked at.
RunForgeDeploy ==
    /\ pc = "forge_deploy"
    /\ UNCHANGED composerVars
    /\ UNCHANGED <<runFixed, schema_version, idx,
                   successful_installations, failures, needs_setup,
                   failed_installations, events, provisioning,
                   migration_outcome, migration_returned, prep_error, clock>>
    /\ IF dry_run
       THEN /\ pc' = "sql_migrate"
            /\ deployment_succeeded' = TRUE
            /\ post_deployment_phase' = TRUE
            /\ UNCHANGED <<deployed_version, deploy_started, exc, exit_code,
                           in_progress_sent, cur_state>>
       ELSE \E success \in BOOLEAN, version \in {"none", "1.0.0"} :
              /\ deploy_started' = TRUE
              /\ deployed_version' = version
              /\ IF success
                 THEN /\ pc' = "sql_migrate"
                      /\ deployment_succeeded' = TRUE
                      /\ post_deployment_phase' = TRUE
                      /\ UNCHANGED <<exc, exit_code, in_progress_sent, cur_state>>
                 ELSE /\ Raise("deploy_failed")
                      /\ UNCHANGED <<deployment_succeeded, post_deployment_phase>>

\* run_sql_migrate, then deploy() goes on to send_deployment_event('SUCCESSFUL').
RunSqlMigrate ==
    /\ pc = "sql_migrate"
    /\ UNCHANGED composerVars
    /\ UNCHANGED <<runFixed, deployed_version, deployment_succeeded,
                   post_deployment_phase, idx,
                   successful_installations, failures, needs_setup,
                   failed_installations, events, provisioning, deploy_started,
                   prep_error, clock>>
    /\ IF dry_run \/ installations = <<>>
       THEN /\ pc' = "send_event"
            /\ cur_state' = "SUCCESSFUL"
            /\ migration_returned' = TRUE
            /\ UNCHANGED <<schema_version, migration_outcome, exc, exit_code,
                           in_progress_sent>>
       ELSE \E outcome \in MigrationOutcomes :
              /\ \E lookup \in TriggerLookups :
                    outcome # "no_match" => (outcome = "no_url" <=> ~lookup.url)
              /\ migration_outcome' = outcome
              /\ schema_version' =
                    IF outcome = "2xx_ok_schema" THEN "v001" ELSE schema_version
              /\ IF MigrationRaises(outcome)
                 THEN /\ Raise("migration_failed")
                      /\ UNCHANGED migration_returned
                 ELSE /\ pc' = "send_event"
                      /\ cur_state' = "SUCCESSFUL"
                      /\ migration_returned' = TRUE
                      /\ UNCHANGED <<exc, exit_code, in_progress_sent>>

\* _handle_deployment_failure, then sys.exit(1).
HandleDeploymentFailure ==
    /\ pc = "handle_failure"
    /\ UNCHANGED composerVars
    /\ IF should_send_failed_notification(in_progress_sent, deployment_succeeded,
                                          post_deployment_phase,
                                          is_migration_failure(exc))
       THEN /\ pc' = "send_event"
            /\ cur_state' = "FAILED"
            /\ UNCHANGED <<exc, exit_code, in_progress_sent>>
       ELSE ExitFailure
    /\ UNCHANGED <<clock, runFixed, deployed_version, schema_version,
                   deployment_succeeded, post_deployment_phase, idx,
                   successful_installations, failures, needs_setup,
                   failed_installations, events, provisioning, deploy_started,
                   migration_outcome, migration_returned, prep_error>>

Next ==
    \/ Main
    \/ LoadCatalogInfo
    \/ InitializeInstallations
    \/ SendDeploymentEvent
    \/ SendInProgressNotifications
    \/ SendFailedToSuccessfulInstallations
    \/ ValidateNotificationResults
    \/ SendFinalNotifications
    \/ RunForgeDeploy
    \/ RunSqlMigrate
    \/ HandleDeploymentFailure

Spec == Init /\ [][Next]_vars

\* ---------------------------------------------------- description composer
\* A string is modelled character by character: every character is tagged
\* with the description line it belongs to and, inside the uncommitted line,
\* with the file whose fragment it belongs to (0: no file, -1: the marker
\* that files were left out).
Ch(line, file) == [line |-> line, file |-> file]

\* A text of n characters of one line.
Text(line, n) == [k \in 1..n |-> Ch(line, 0)]

\* len(str(n)) of a non-negative integer.
RECURSIVE Digits(_)
Digits(n) == IF n < 10 THEN 1 ELSE 1 + Digits(n \div 10)

\* separator.join(lines).
RECURSIVE Join(_, _)
Join(lines, separator) ==
    IF lines = <<>> THEN <<>>
    ELSE IF Len(lines) = 1 THEN lines[1]
    ELSE lines[1] \o separator \o Join(Tail(lines), separator)

\* Largest number of files with uncommitted changes `git diff --numstat` lists.
MaxFiles == 2

\* Per-file statistics: the length of the base name and the counts.
FileStats ==
    { [name |-> 4,  additions |-> 1,    deletions |-> 0],
      [name |-> 40, additions |-> 1500, deletions |-> 20] }

\* Lengths of the strings the composer reads (0: the string is None).
VersionLengths == {0, 5}
SchemaLengths == {0, 9}
BranchLengths == {4, 30, 31}
HashLengths == {7}
UserNameLengths == {5, 150, 260} \cup 180..192

RECURSIVE SumOf(_, _)
SumOf(files, field) ==
    IF files = <<>> THEN 0 ELSE files[1][field] + SumOf(Tail(files), field)

RECURSIVE SeqsUpTo(_, _)
SeqsUpTo(S, n) ==
    IF n = 0 THEN { <<>> }
    ELSE LET shorter == SeqsUpTo(S, n - 1)
         IN  shorter \cup { Append(q, x) : q \in shorter, x \in S }

\* get_uncommitted_changes_detailed: count is the number of `git status`
\* lines, the totals are summed over the `git diff --numstat` lines.
UncommittedChanges ==
    { [count |-> c, total_additions |-> SumOf(f, "additions"),
       total_deletions |-> SumOf(f, "deletions"), files |-> f] :
         c \in {1, 12}, f \in SeqsUpTo(FileStats, MaxFiles) }

\* "{basename} (+{additions}/-{deletions})" of the i-th file.
FileStr(files, i) ==
    [k \in 1..(files[i].name + 6 + Digits(files[i].additions)
                 + Digits(files[i].deletions)) |-> Ch("uncommitted", i)]

\* ", ".join of the fragments of the first k files.
RECURSIVE JoinFiles(_, _)
JoinFiles(files, k) ==
    IF k = 0 THEN <<>>
    ELSE IF k = 1 THEN FileStr(files, 1)
    ELSE JoinFiles(files, k - 1) \o Text("uncommitted", 2) \o FileStr(files, k)

\* The loop without the 5 characters kept for ", ..." while files remain.
RECURSIVE FileParts_NoReserve(_, _, _)
FileParts_NoReserve(files, remaining_space, k) ==
    IF k = Len(files) THEN k
    ELSE IF Len(JoinFiles(files, k + 1)) <= remaining_space
    THEN FileParts_NoReserve(files, remaining_space, k + 1)
    ELSE k

\* _format_uncommitted_line, the loop: the number of files in file_parts when
\* the loop ends, entered with k files in file_parts.
RECURSIVE FileParts(_, _, _)
FileParts(files, remaining_space, k) ==
    IF k = Len(files) THEN k
    ELSE LET test_str == JoinFiles(files, k + 1)
             has_more_files == k + 1 < Len(files)
             required_space == Len(test_str) + (IF has_more_files THEN 5 ELSE 0)
         IN  IF required_space <= remaining_space
             THEN FileParts(files, remaining_space, k + 1)
             ELSE k

\* _format_uncommitted_line: the line, <<>> for None.
format_uncommitted_line(uncommitted, max_length) ==
    LET base == Text("uncommitted",
                     24 + Digits(uncommitted.count)
                        + Digits(uncommitted.total_additions)
                        + Digits(uncommitted.total_deletions))
        marker(n) == [k \in 1..n |-> Ch("uncommitted", -1)]
        fit == FileParts(uncommitted.files, max_length - Len(base), 0)
    IN  IF Len(base) + 3 > max_length THEN <<>>
        ELSE IF fit > 0
        THEN base \o JoinFiles(uncommitted.files, fit)
                  \o (IF fit < Len(uncommitted.files)
                      THEN Text("uncommitted", 2) \o marker(3) ELSE <<>>)
        ELSE base \o marker(3)

\* The description returned as joined, whatever its length.
safety_truncation_Off(text) == text

\* create_deployment_description, the last step: a description longer than
\* 255 characters is cut to 252 characters and "...".
safety_truncation(text) ==
    IF Len(text) > 255
    THEN SubSeq(text, 1, 252) \o Text("truncation", 3)
    ELSE text

\* create_deployment_description: the lines before the uncommitted line.
BaseLines(state, in) ==
    (IF state = "SUCCESSFUL" /\ in.version > 0
     THEN << Text("version", 9 + in.version) >> ELSE <<>>)
    \o (IF in.schema > 0 THEN << Text("schema", 8 + in.schema) >> ELSE <<>>)
    \o << Text("branch", 8 + (IF in.branch > 30 THEN 27 + 3 ELSE in.branch)) >>
    \o << Text("commit", 8 + in.hash) >>

UserLine(in) == Text("user", 6 + in.user)

\* create_deployment_description: space_for_uncommitted.
SpaceForUncommitted(state, in) ==
    255 - Len(Join(BaseLines(state, in), Text("separator", 1)))
        - Len(UserLine(in)) - 2 * 1

\* create_deployment_description.
create_deployment_description(state, in) ==
    LET separator == Text("separator", 1)
        space_for_uncommitted == SpaceForUncommitted(state, in)
        uncommitted_line ==
            IF in.has_uncommitted /\ space_for_uncommitted > 30
            THEN format_uncommitted_line(in.uncommitted, space_for_uncommitted)
            ELSE <<>>
        lines == BaseLines(state, in)
                   \o (IF uncommitted_line # <<>> THEN << uncommitted_line >> ELSE <<>>)
                   \o << UserLine(in) >>
    IN  safety_truncation(Join(lines, separator))

\* The notifier fields and the variables of the other specifications, at
\* rest while a composer is exercised on its own.
NotifierAtRest ==
    /\ environ = Credentials
    /\ exit_code = -1
    /\ exc = "none"
    /\ dry_run = FALSE
    /\ deployed_version = "none"
    /\ schema_version = "none"
    /\ discovered = 0
    /\ in_progress_sent = FALSE
    /\ deployment_succeeded = FALSE
    /\ post_deployment_phase = FALSE
    /\ cur_state = "none"
    /\ idx = 0
    /\ successful_installations = <<>>
    /\ failures = <<>>
    /\ needs_setup = <<>>
    /\ failed_installations = <<>>
    /\ events = <<>>
    /\ provisioning = <<>>
    /\ deploy_started = FALSE
    /\ migration_outcome = "none"
    /\ migration_returned = FALSE
    /\ prep_error = {}
    /\ clock = 0

atRestVars == <<environ, exit_code, exc, dry_run, deployed_version,
                schema_version, discovered, in_progress_sent,
                deployment_succeeded, post_deployment_phase, cur_state, idx,
                successful_installations, failures, needs_setup,
                failed_installations, events, provisioning, deploy_started,
                migration_outcome, migration_returned, prep_error, clock>>

\* The inputs of one call of create_deployment_description: the state, and
\* what get_git_info, get_user_name, get_uncommitted_changes_detailed,
\* self.deployed_version and self.schema_version return.
DescriptionInit ==
    /\ NotifierAtRest
    /\ pc = "describe"
    /\ deployment_run_id = 0 /\ base_sequence_number = 0
    /\ cloud_ids = <<>> /\ installations = <<>>
    /\ github_repo = "none" /\ deployment_start_time = 0
    /\ payloads = <<>>
    /\ description = <<>>
    /\ RankerAtRest
    /\ \E state \in States, version \in VersionLengths, schema \in SchemaLengths,
          branch \in BranchLengths, hash \in HashLengths, user \in UserNameLengths,
          has_uncommitted \in BOOLEAN, uncommitted \in UncommittedChanges :
         /\ ~has_uncommitted => uncommitted = [count |-> 1, total_additions |-> 0,
                                               total_deletions |-> 0, files |-> <<>>]
         /\ description_input =
               [state |-> state, version |-> version, schema |-> schema,
                branch |-> branch, hash |-> hash, user |-> user,
                has_uncommitted |-> has_uncommitted, uncommitted |-> uncommitted]

\* One call of create_deployment_description.
CreateDeploymentDescription ==
    /\ pc = "describe"
    /\ pc' = "described"
    /\ description' = create_deployment_description(description_input.state,
                                                    description_input)
    /\ UNCHANGED <<atRestVars, deployment_run_id, base_sequence_number,
                   cloud_ids, installations, github_repo,
                   deployment_start_time, description_input, payloads,
                   rankerVars>>

DescriptionNext == CreateDeploymentDescription

DescriptionSpec == DescriptionInit /\ [][DescriptionNext]_vars

\* ------------------------------------------------------- payload composer
\* Largest number of payloads built in one run of the payload specification.
MaxPayloads == 2

\* self.component_slug and self.github_repo, as load_catalog_info returns them.
ComponentSlug == "my-component"
GithubRepos == {"none", "org/repo"}

\* What `git rev-parse --short HEAD` (get_git_info) and `git rev-parse HEAD`
\* (create_deployment_url) answer: a hash, or the command fails.  The second
\* command is only run when a repository is configured and the first answered.
GitReadings ==
    { [hash |-> "unknown", head |-> "failed"],
      [hash |-> "abc1234", head |-> "failed"],
      [hash |-> "abc1234", head |-> "abc1234def"] }

\* The localhost link for every run.
create_deployment_url_FallbackOnly(repo, git_hash, head) ==
    [host |-> "localhost", repo |-> "none", commit |-> "none",
     slug |-> ComponentSlug, run |-> deployment_run_id]

\* create_deployment_url: https://github.com/{repo}/commit/{hash}, or
\* https://localhost/{component_slug}/{deployment_run_id}.
create_deployment_url(repo, git_hash, head) ==
    IF repo # "none" /\ git_hash # "unknown"
    THEN [host |-> "github.com", repo |-> repo,
          commit |-> IF head # "failed" THEN head ELSE git_hash,
          slug |-> "none", run |-> -1]
    ELSE [host |-> "localhost", repo |-> "none", commit |-> "none",
          slug |-> ComponentSlug, run |-> deployment_run_id]

\* create_event_payload, the links and the start time of the payload.
event_links(git) ==
    LET deployment_url == create_deployment_url(github_repo, git.hash, git.head)
    IN  [url |-> deployment_url,
         pipeline_url |-> deployment_url,
         startedAt |-> deployment_start_time]

\* A notifier after __init__ and load_catalog_info, with two verified
\* installations.
PayloadInit ==
    /\ NotifierAtRest
    /\ pc = "payload"
    /\ deployment_run_id \in RunIdReadings
    /\ base_sequence_number \in ClockReadings
    /\ deployment_start_time \in RunIdReadings
    /\ github_repo \in GithubRepos
    /\ cloud_ids = <<1, 2>>
    /\ installations = <<1, 2>>
    /\ description_input = <<>>
    /\ description = <<>>
    /\ payloads = <<>>
    /\ RankerAtRest

\* One call of create_event_payload, for any installation and state, at any
\* clock reading and with whatever the git commands answer at that moment.
CreateEventPayload ==
    /\ pc = "payload"
    /\ Len(payloads) < MaxPayloads
    /\ \E installation \in Range(installations), state \in States,
          reading \in ClockReadings, git \in GitReadings :
         payloads' = Append(payloads,
                            [event |-> create_event_payload(installation, state, reading),
                             links |-> event_links(git),
                             git   |-> git])
    /\ UNCHANGED <<atRestVars, pc, deployment_run_id, base_sequence_number,
                   cloud_ids, installations, github_repo,
                   deployment_start_time, description_input, description,
                   rankerVars>>

PayloadNext == CreateEventPayload

PayloadSpec == PayloadInit /\ [][PayloadNext]_vars

\* ---------------------------------------------------------- issue ranking
\* src/scripts/executable_rank_jira_issues.py.  An issue row is modelled by
\* its key and its parent_key (0: no parent, -1: a parent that is not among
\* the issues of the query).
\* Largest number of issues given to _order_children_under_parents.
MaxIssues == 4

\* Largest number of keys given to apply_rank.
MaxKeys == 103

RANK_BATCH_SIZE == 50

\* The key reached from `key` by following parent_key `steps` times through
\* rows whose key is their position.
RECURSIVE Ancestor(_, _, _)
Ancestor(rows, key, steps) ==
    IF steps = 0 \/ key \notin 1..Len(rows) THEN key
    ELSE Ancestor(rows, rows[key].parent_key, steps - 1)

\* What search_issues returns and sorted() reorders: rows with distinct keys
\* (named by their position) whose parent links form no cycle, as the issue
\* hierarchy of the tracker guarantees.
SortedIssues ==
    UNION { { rows \in { [k \in 1..n |-> [key |-> k, parent_key |-> parents[k]]] :
                            parents \in [1..n -> -1..n] } :
                 \A k \in 1..n : Ancestor(rows, k, n) \notin 1..n }
            : n \in 0..MaxIssues }

\* _order_children_under_parents: keys_set.
keys_set(rows) == { rows[k].key : k \in 1..Len(rows) }

\* _order_children_under_parents: children_of.get(key, []).
children_of(rows, key) ==
    SelectSeq(rows, LAMBDA r : r.parent_key # 0 /\ r.parent_key \in keys_set(rows)
                                /\ r.parent_key = key)

\* Only the rows without a parent key.
top_level_NoParentOnly(rows) ==
    SelectSeq(rows, LAMBDA r : r.parent_key = 0)

\* _order_children_under_parents: top_level.
top_level(rows) ==
    SelectSeq(rows, LAMBDA r : r.parent_key = 0
                                \/ r.parent_key \notin keys_set(rows))

\* _order_children_under_parents: the while loop; the children of the row
\* popped are put at the left of the queue in their order.
RECURSIVE drain_queue(_, _, _)
drain_queue(rows, queue, result) ==
    IF queue = <<>> THEN result
    ELSE drain_queue(rows,
                     children_of(rows, Head(queue).key) \o Tail(queue),
                     Append(result, Head(queue)))

\* _order_children_under_parents.
order_children_under_parents(rows) ==
    IF rows = <<>> THEN <<>>
    ELSE drain_queue(rows, top_level(rows), <<>>)

\* The notifier and the composers at rest while the ranking script runs.
ComposersAtRest ==
    /\ NotifierAtRest
    /\ deployment_run_id = 0 /\ base_sequence_number = 0
    /\ cloud_ids = <<>> /\ installations = <<>>
    /\ github_repo = "none" /\ deployment_start_time = 0
    /\ description_input = <<>> /\ description = <<>>
    /\ payloads = <<>>

notifierVars == <<atRestVars, deployment_run_id, base_sequence_number,
                  cloud_ids, installations, github_repo,
                  deployment_start_time, description_input, description,
                  payloads>>

\* The list main() hands to _order_children_under_parents.
OrderInit ==
    /\ ComposersAtRest
    /\ pc = "order"
    /\ sorted_issues \in SortedIssues
    /\ ordered_issues = <<>>
    /\ ordered_keys = <<>> /\ rank_i = 0
    /\ rank_requests = <<>> /\ rank_result = "none"

\* One call of _order_children_under_parents, and main()'s ordered_keys.
OrderChildrenUnderParents ==
    /\ pc = "order"
    /\ pc' = "ordered"
    /\ ordered_issues' = order_children_under_parents(sorted_issues)
    /\ ordered_keys' = [k \in 1..Len(ordered_issues') |-> ordered_issues'[k].key]
    /\ UNCHANGED <<notifierVars, sorted_issues, rank_i, rank_requests,
                   rank_result>>

OrderNext == OrderChildrenUnderParents

OrderSpec == OrderInit /\ [][OrderNext]_vars

\* What the rank endpoint answers: 204, 207, another status that
\* raise_for_status lets pass, a status for which it raises.
RankResponses == {"204", "207", "other_ok", "error"}

\* apply_rank is called with a list of distinct keys, named by their position.
RankInit ==
    /\ ComposersAtRest
    /\ pc = "apply_rank"
    /\ sorted_issues = <<>> /\ ordered_issues = <<>>
    /\ \E n \in 0..MaxKeys : ordered_keys = [k \in 1..n |-> k]
    /\ rank_i = 0
    /\ rank_requests = <<>>
    /\ rank_result = "none"

\* apply_rank: ordered_keys[i + 1 : i + 1 + RANK_BATCH_SIZE] (i counts from 0).
rank_batch(keys, i) ==
    SubSeq(keys, i + 2,
           IF i + 1 + RANK_BATCH_SIZE < Len(keys) THEN i + 1 + RANK_BATCH_SIZE
           ELSE Len(keys))

\* apply_rank returns (True, None): a list of at most one key, the loop
\* condition false, or an empty batch.
ApplyRankReturn ==
    /\ pc \in {"apply_rank", "rank_loop"}
    /\ \/ pc = "apply_rank" /\ Len(ordered_keys) <= 1
       \/ pc = "rank_loop"
             /\ (rank_i >= Len(ordered_keys)
                    \/ rank_batch(ordered_keys, rank_i) = <<>>)
    /\ pc' = "ranked"
    /\ rank_result' = "success"
    /\ UNCHANGED <<notifierVars, sorted_issues, ordered_issues, ordered_keys,
                   rank_i, rank_requests>>

\* apply_rank: the loop is entered.
ApplyRankEnter ==
    /\ pc = "apply_rank" /\ Len(ordered_keys) > 1
    /\ pc' = "rank_loop"
    /\ UNCHANGED <<notifierVars, rankerVars>>

\* apply_rank: one pass of the loop that sends a request.
ApplyRankRequest ==
    /\ pc = "rank_loop"
    /\ rank_i < Len(ordered_keys)
    /\ rank_batch(ordered_keys, rank_i) # <<>>
    /\ LET anchor == ordered_keys[rank_i + 1]
           batch == rank_batch(ordered_keys, rank_i)
       IN  /\ rank_requests' = Append(rank_requests,
                                      [issues |-> batch, rankAfterIssue |-> anchor])
           /\ \E resp \in RankResponses :
                 CASE resp \in {"204", "other_ok"} ->
                        /\ rank_i' = rank_i + Len(batch) + 1
                        /\ UNCHANGED <<pc, rank_result>>
                   [] resp = "207" ->
                        /\ pc' = "ranked" /\ rank_result' = "partial_failure"
                        /\ UNCHANGED rank_i
                   [] resp = "error" ->
                        /\ pc' = "ranked" /\ rank_result' = "raised"
                        /\ UNCHANGED rank_i
    /\ UNCHANGED <<notifierVars, sorted_issues, ordered_issues, ordered_keys>>

RankNext == ApplyRankEnter \/ ApplyRankRequest \/ ApplyRankReturn

RankSpec == RankInit /\ [][RankNext]_vars


\* ================================================================== claims
\* A 2xx answer of the event submission endpoint.
Accepted(resp) == resp \in {"200", "201"}

\* Positions in `events` of the submissions of state st to installation i.
EventsOf(i, st) ==
    {k \in 1..Len(events) :
        events[k].inst = i /\ events[k].payload.state = st}

\* Installation i answered an IN_PROGRESS submission with a 2xx.
AckedInProgress(i) ==
    \E k \in EventsOf(i, "IN_PROGRESS") : Accepted(events[k].response)

NoEventOfState(st) == \A k \in 1..Len(events) : events[k].payload.state # st

\* C1: when the IN_PROGRESS phase ends with at least one installation in
\* SetupFailed or SendFailed, every installation that reached Sent in that
\* phase has been submitted a FAILED event by the time the run has aborted,
\* whatever the mix of failure kinds.
C1_CompensationOnAnyFailure ==
    (pc = "exited" /\ (needs_setup # <<>> \/ failures # <<>>))
        => \A i \in Range(successful_installations) : EventsOf(i, "FAILED") # {}

\* C2: a FAILED event is submitted to an installation only after that
\* installation answered an IN_PROGRESS event of the run with a success, and
\* an installation whose IN_PROGRESS submission ended in SetupFailed or
\* SendFailed is never submitted a FAILED event.
C2_FailedOnlyAfterAckedInProgress ==
    /\ \A k \in 1..Len(events) :
          events[k].payload.state = "FAILED"
             => \E j \in 1..(k - 1) :
                   /\ events[j].payload.state = "IN_PROGRESS"
                   /\ events[j].inst = events[k].inst
                   /\ events[j].payload.pipelineId = events[k].payload.pipelineId
                   /\ Accepted(events[j].response)
    /\ \A i \in Range(needs_setup) \cup Range(failures) : EventsOf(i, "FAILED") = {}

\* A run aborted in the IN_PROGRESS phase after a send failure, with a
\* compensating FAILED event submitted.
C2_Witness ==
    /\ pc = "exited"
    /\ failures # <<>>
    /\ \E i \in Range(successful_installations) : EventsOf(i, "FAILED") # {}

\* C3: when the run has ended by its own control flow, every installation
\* that acknowledged an IN_PROGRESS event has been submitted a terminal event
\* (SUCCESSFUL or FAILED).
C3_NoInstallationLeftInProgress ==
    pc = "exited"
        => \A i \in Range(installations) :
              AckedInProgress(i)
                 => EventsOf(i, "SUCCESSFUL") \cup EventsOf(i, "FAILED") # {}

\* C4: the deploy step is started only when the IN_PROGRESS phase left every
\* verified installation in Sent (or there is none); when any installation
\* ended in SetupFailed or SendFailed, the deploy step and the migration
\* trigger are never started and the process does not exit with code 0.
C4_DeployOnlyAfterAllSent ==
    /\ deploy_started
          => /\ needs_setup = <<>> /\ failures = <<>>
             /\ successful_installations = installations
             /\ \A i \in Range(installations) :
                   \E k \in EventsOf(i, "IN_PROGRESS") : IsSuccess(events[k].response)
    /\ (needs_setup # <<>> \/ failures # <<>>)
          => /\ ~deploy_started
             /\ ~migration_invoked
             /\ exit_code # 0
             /\ pc = "exited" => exit_code = 1

\* An abort after a setup failure alone, with another installation in Sent.
C4_Witness ==
    /\ pc = "exited"
    /\ needs_setup # <<>> /\ failures = <<>>
    /\ successful_installations # <<>>
    /\ exit_code = 1

C7_NoFailedAfterSuccessfulDeploy ==
    migration_returned => NoEventOfState("FAILED")

\* C8: the exit code is 0 only when no notification was needed or the
\* SUCCESSFUL event was accepted by every verified installation.
C8_ExitZeroOnlyIfSuccessDelivered ==
    exit_code = 0
        => \/ dry_run
           \/ installations = <<>>
           \/ \A i \in Range(installations) :
                 \E k \in EventsOf(i, "SUCCESSFUL") : Accepted(events[k].response)

\* C9: every IN_PROGRESS event carries updateSequenceNumber =
\* baseSequenceNumber; every terminal event is built with
\* max(clock reading, baseSequenceNumber + 1) (stated of the latest event,
\* whose clock reading the state holds) and so carries a number greater than
\* that of every IN_PROGRESS event of the run, for any clock reading.
C9_UpdateSequenceNumberIncreases ==
    \A k \in 1..Len(events) :
       LET p == events[k].payload
       IN  IF p.state = "IN_PROGRESS"
           THEN p.updateSequenceNumber = base_sequence_number
           ELSE /\ p.updateSequenceNumber > base_sequence_number
                /\ k = Len(events)
                      => p.updateSequenceNumber = Max(clock, base_sequence_number + 1)

\* A terminal event built from a clock reading below the base sequence number
\* (the clock went backwards), after an IN_PROGRESS event of the same run.
C9_Witness ==
    /\ events # <<>>
    /\ events[Len(events)].payload.state # "IN_PROGRESS"
    /\ clock < base_sequence_number
    /\ \E j \in 1..Len(events) : events[j].payload.state = "IN_PROGRESS"

\* C10: every event payload of the run, for every installation and state,
\* carries the base sequence number as deploymentProperties.sequenceNumber.
C10_RunSequenceNumberConstant ==
    \A k \in 1..Len(events) :
       events[k].payload.sequenceNumber = base_sequence_number

\* A resubmitted IN_PROGRESS event, a compensating FAILED event and a later
\* clock reading all in one run.
C10_Witness ==
    /\ \E i \in Range(installations) : Cardinality(EventsOf(i, "IN_PROGRESS")) = 2
    /\ events[Len(events)].payload.state = "FAILED"
    /\ clock > base_sequence_number


\* ------------------------------------------------------- claims C11 - C20
\* initialize_installations has run.
InitializeDone ==
    /\ pc \notin {"main", "load_catalog", "initialize"}
    /\ exc # "catalog"
    /\ CredentialsPresent(environ)

\* Positions in `provisioning` of the calls made for installation i.
ProvisioningOf(i) == {k \in 1..Len(provisioning) : provisioning[k].inst = i}

\* The installations the IN_PROGRESS loop has classified so far.
Processed ==
    Range(successful_installations) \cup Range(needs_setup) \cup Range(failures)

FirstInProgress(i) ==
    CHOOSE k \in EventsOf(i, "IN_PROGRESS") :
        \A j \in EventsOf(i, "IN_PROGRESS") : k <= j

LastInProgress(i) ==
    CHOOSE k \in EventsOf(i, "IN_PROGRESS") :
        \A j \in EventsOf(i, "IN_PROGRESS") : k >= j

\* C11: every submitted event payload carries the run id as pipelineId, for
\* every installation and state.
C11_PipelineIdIsRunId ==
    \A k \in 1..Len(events) : events[k].payload.pipelineId = deployment_run_id

\* Events of two states submitted in a run whose run id and base sequence
\* number come from different clock readings.
C11_Witness ==
    /\ deployment_run_id # base_sequence_number
    /\ ~NoEventOfState("IN_PROGRESS")
    /\ ~NoEventOfState("SUCCESSFUL")

\* What C12 promises of a finished run with N verified installations.
CleanRun ==
    /\ \A i \in Range(installations) :
          /\ Cardinality(EventsOf(i, "IN_PROGRESS")) = 1
          /\ Cardinality(EventsOf(i, "SUCCESSFUL")) = 1
          /\ \A j \in EventsOf(i, "IN_PROGRESS") :
                \A k \in EventsOf(i, "SUCCESSFUL") : j < k
    /\ Len(events) = 2 * Len(installations)
    /\ NoEventOfState("FAILED")
    /\ provisioning = <<>>
    /\ \A k \in 1..Len(events) :
          /\ events[k].payload.sequenceNumber = events[1].payload.sequenceNumber
          /\ events[k].payload.pipelineId = events[1].payload.pipelineId
    /\ exit_code = 0

\* The deploy step and the migration step succeeded and every submission made
\* was answered with a 2xx.
AllAccepted ==
    /\ pc = "exited"
    /\ deploy_started /\ deployment_succeeded /\ migration_returned
    /\ \A k \in 1..Len(events) : Accepted(events[k].response)

\* C12: when all installations accept every submission and deploy
\* and migration succeed, exactly one IN_PROGRESS and then one SUCCESSFUL
\* event is submitted per installation, no FAILED event and no provisioning
\* call is made, all events share one sequenceNumber/pipelineId pair and the
\* exit code is 0.
C12_CleanRun == AllAccepted => CleanRun

\* C13: when discovery returns no installation the verified set is empty, no
\* event is submitted and no provisioning call is made, the run goes through
\* the deploy and migration steps, and it exits 0 when the deploy step
\* succeeds and non-zero when it fails.
C13_NoInstallationsNoNotifications ==
    (InitializeDone /\ discovered = 0)
        => /\ installations = <<>>
           /\ events = <<>> /\ provisioning = <<>>
           /\ exc \in {"none", "deploy_failed"}
           /\ pc = "exited"
                 => /\ ~dry_run => deploy_started
                    /\ exc = "none" => (exit_code = 0 /\ migration_returned)
                    /\ exc = "deploy_failed" => exit_code = 1

\* A real run without installations that deployed and exited 0.
C13_Witness ==
    /\ InitializeDone /\ discovered = 0
    /\ pc = "exited" /\ deploy_started /\ exit_code = 0

\* C14: when discovery returned installations and the component lookup
\* succeeded for none, the run aborts with a non-zero exit code, no event is
\* submitted and the deploy step is not started.
C14_NothingVerifiedAborts ==
    (InitializeDone /\ discovered > 0 /\ installations = <<>>)
        => /\ exc = "verification"
           /\ events = <<>> /\ provisioning = <<>>
           /\ ~deploy_started /\ ~migration_invoked
           /\ exit_code # 0
           /\ pc = "exited" => exit_code = 1

\* Two installations discovered, none verified, the run over.
C14_Witness ==
    /\ pc = "exited" /\ discovered >= 2 /\ installations = <<>>

\* C15: the verified set holds at most one installation per cloud id, and no
\* cloud id is submitted the SUCCESSFUL event twice.
C15_OneInstallationPerCloudId ==
    /\ \A p \in 1..Len(installations) : \A q \in 1..Len(installations) :
          p # q => cloud_ids[installations[p]] # cloud_ids[installations[q]]
    /\ \A j \in 1..Len(events) : \A k \in 1..Len(events) :
          (j # k /\ events[j].payload.state = "SUCCESSFUL"
                 /\ events[k].payload.state = "SUCCESSFUL")
             => events[j].payload.cloudId # events[k].payload.cloudId

\* C16: the first answer to an IN_PROGRESS submission decides: a 2xx gives
\* Sent, the resource-not-found code starts provisioning, anything else gives
\* SendFailed (never SetupFailed) and starts no provisioning.
C16_InProgressClassification ==
    \A i \in Processed :
       LET r == events[FirstInProgress(i)].response
       IN  /\ Accepted(r) => i \in Range(successful_installations)
           /\ r = "404nf" => ProvisioningOf(i) # {}
           /\ (~Accepted(r) /\ r # "404nf")
                 => /\ i \in Range(failures)
                    /\ i \notin Range(needs_setup)
                    /\ ProvisioningOf(i) = {}

\* C17: after a resource-not-found answer the outcome is SetupFailed exactly
\* when a provisioning step failed; after successful provisioning a 2xx to
\* the resubmission gives Sent and any other answer gives SendFailed.
C17_SetupFailedOnlyWhenProvisioningFailed ==
    \A i \in Processed :
       events[FirstInProgress(i)].response = "404nf"
          => LET provFailed == \E k \in ProvisioningOf(i) : ~provisioning[k].ok
                 r2 == events[LastInProgress(i)].response
             IN  /\ i \in Range(needs_setup) <=> provFailed
                 /\ ~provFailed
                       => /\ Cardinality(EventsOf(i, "IN_PROGRESS")) = 2
                          /\ Accepted(r2) => i \in Range(successful_installations)
                          /\ ~Accepted(r2) => i \in Range(failures)

\* C18: an installation is submitted the IN_PROGRESS event at most twice, the
\* second time only after a resource-not-found answer and a successful create
\* and attach, and each terminal event at most once.
C18_NoAutomaticRetry ==
    \A j \in 1..Len(events) : \A k \in (j + 1)..Len(events) :
       (events[j].inst = events[k].inst
           /\ events[j].payload.state = events[k].payload.state)
          \* two events of one state for one installation: an IN_PROGRESS
          \* event and the resubmission that follows it at once (so there is
          \* no third one)
          => /\ events[j].payload.state = "IN_PROGRESS"
             /\ k = j + 1
             /\ events[j].response = "404nf"
             /\ \E c \in 1..Len(provisioning) :
                   /\ c < Len(provisioning)
                   /\ provisioning[c] =
                         [inst |-> events[j].inst, op |-> "create",
                          ok |-> TRUE, at |-> j]
                   /\ provisioning[c + 1] =
                         [inst |-> events[j].inst, op |-> "attach",
                          ok |-> TRUE, at |-> j]

\* An installation whose IN_PROGRESS event was resubmitted after provisioning
\* and that was later sent the FAILED event because another installation
\* rejected its IN_PROGRESS event.
C18_Witness ==
    /\ \E i \in Range(installations) :
          /\ Cardinality(EventsOf(i, "IN_PROGRESS")) = 2
          /\ Cardinality(EventsOf(i, "FAILED")) = 1
    /\ failures # <<>>

\* C19: in the terminal phase every verified installation is submitted the
\* event exactly once, whatever the answers to the others; the failures are
\* collected in order and the phase runs to its end.
C19_TerminalPhaseBestEffort ==
    /\ pc = "final_loop"
          => /\ \A p \in 1..Len(installations) :
                   Cardinality(EventsOf(installations[p], cur_state))
                      = IF p < idx THEN 1 ELSE 0
             /\ idx <= Len(installations) + 1
             /\ failed_installations =
                   SelectSeq(SubSeq(installations, 1, idx - 1),
                             LAMBDA i : \E k \in EventsOf(i, cur_state) :
                                           ~IsSuccess(events[k].response))
    /\ (pc = "exited" /\ ~dry_run /\ cur_state \in {"SUCCESSFUL", "FAILED"}
          /\ cur_state \notin prep_error)
          => \A i \in Range(installations) :
                Cardinality(EventsOf(i, cur_state)) = 1

\* A terminal phase that ran to its end although the first installation's
\* submission failed.
C19_Witness ==
    /\ pc = "exited" /\ cur_state = "SUCCESSFUL"
    /\ Len(installations) >= 2
    /\ Len(failed_installations) >= 1
    /\ failed_installations[1] = installations[1]
    /\ EventsOf(installations[Len(installations)], "SUCCESSFUL") # {}

\* C20: the error that aborts the IN_PROGRESS phase names every installation
\* that ended in SetupFailed and every installation that ended in SendFailed,
\* each under its own kind.
C20_AbortErrorNamesAllFailures ==
    exc \in {"setup_failed", "send_failed"}
        => /\ abort_error_names(needs_setup, failures).setup = Range(needs_setup)
           /\ abort_error_names(needs_setup, failures).send = Range(failures)


\* ------------------------------------------------------- claims C21 - C30
\* C22: a dry-run invocation (with the credentials set) always exits with
\* code 0, whatever catalog loading, discovery, verification and the
\* user-identity lookup return.
C22_DryRunExitsZero ==
    (dry_run /\ CredentialsPresent(environ) /\ pc = "exited") => exit_code = 0

\* C23: in dry-run mode no event is submitted, no provisioning call is made,
\* the deploy command and the migration trigger are not run and no remote
\* lookup request is sent.
C23_DryRunMakesNoRemoteCall ==
    dry_run
        => /\ events = <<>> /\ provisioning = <<>>
           /\ ~deploy_started /\ ~migration_invoked
           /\ component_lookups = 0

\* C24: when one of the two credentials is absent the process exits with a
\* non-zero code before any phase: nothing is discovered or verified, no
\* event is submitted, no deploy and no migration trigger is run.
C24_MissingCredentialsExitBeforeAnyPhase ==
    ~(Credentials \subseteq environ)
        => /\ pc \in {"main", "exited"}
           /\ pc = "exited" => exit_code = 1
           /\ component_lookups = 0 /\ installations = <<>>
           /\ events = <<>> /\ provisioning = <<>>
           /\ ~deploy_started /\ ~migration_invoked /\ ~migration_returned

\* The process has exited with only one of the credentials set.
C24_Witness ==
    /\ pc = "exited"
    /\ environ = {"ATLASSIAN_USER_API_KEY"}

\* C25: after a successful deploy a 3xx or 4xx answer of the migration
\* trigger lets the run go on to the SUCCESSFUL notification, a 5xx answer
\* aborts it, a 2xx answer whose body reports failure (success false, status
\* other than SUCCESS, pending migrations above 0) aborts it, and a 2xx answer
\* with a passing body or without a JSON body lets it go on.
C25_MigrationResponseDecides ==
    LET body == MigrationBody(migration_outcome)
        reportsFailure ==
            /\ migration_outcome \in JsonOutcomes
            /\ (~body.success \/ body.status # "SUCCESS" \/ body.pendingMigrations > 0)
    IN  /\ (migration_outcome = "5xx" \/ reportsFailure)
           => /\ ~migration_returned
              /\ exc = "migration_failed"
              /\ NoEventOfState("SUCCESSFUL")
              /\ pc = "exited" => exit_code = 1
        /\ (migration_outcome \in {"3xx", "4xx", "2xx_nojson"}
              \/ (migration_outcome \in JsonOutcomes /\ ~reportsFailure))
           => /\ migration_returned
              /\ exc # "migration_failed"
              /\ cur_state = "SUCCESSFUL" \/ "SUCCESSFUL" \in prep_error

\* A run aborted by a 2xx answer that reports pending migrations, with the
\* FAILED event sent.
C25_Witness ==
    /\ pc = "exited"
    /\ migration_outcome = "2xx_pending"
    /\ ~NoEventOfState("FAILED")

\* C26: provisioning calls are made only for a submission answered with the
\* resource-not-found code; attach follows a successful create; the event is
\* resubmitted once, right after both succeeded, with the payload of the
\* first submission.
C26_ProvisioningOrderedAndGated ==
    /\ \A c \in 1..Len(provisioning) :
          LET r == provisioning[c]
          IN  /\ r.at \in 1..Len(events)
              /\ events[r.at].inst = r.inst
              /\ events[r.at].response = "404nf"
              /\ r.op = "create" => (c = 1 \/ provisioning[c - 1].at < r.at)
              /\ r.op = "attach"
                    => /\ c > 1
                       /\ provisioning[c - 1] =
                             [inst |-> r.inst, op |-> "create", ok |-> TRUE, at |-> r.at]
              /\ (r.op = "attach" /\ r.ok)
                    => /\ r.at < Len(events)
                       /\ events[r.at + 1].inst = r.inst
                       /\ events[r.at + 1].payload = events[r.at].payload
    /\ \A k \in 2..Len(events) :
          (events[k].inst = events[k - 1].inst
              /\ events[k].payload.state = events[k - 1].payload.state)
             => \E c \in 1..Len(provisioning) :
                   provisioning[c] =
                      [inst |-> events[k].inst, op |-> "attach", ok |-> TRUE, at |-> k - 1]

\* One installation was resubmitted the event after provisioning, for another
\* one the create call failed.
C26_Witness ==
    /\ \E c \in 1..Len(provisioning) :
          provisioning[c].op = "attach" /\ provisioning[c].ok
    /\ \E c \in 1..Len(provisioning) :
          provisioning[c].op = "create" /\ ~provisioning[c].ok

\* C27: a terminal event (SUCCESSFUL, FAILED, compensating FAILED) answered
\* with the resource-not-found code triggers provisioning, as an IN_PROGRESS
\* event does.
C27_TerminalEventsProvision ==
    \A k \in 1..Len(events) :
       (events[k].payload.state # "IN_PROGRESS" /\ events[k].response = "404nf")
          => \E c \in 1..Len(provisioning) : provisioning[c].at = k


\* The uncommitted line is part of the composed description.
HasUncommittedLine ==
    \E k \in 1..Len(description) : description[k].line = "uncommitted"

\* C21: whatever the inputs, the composed description is at most 255
\* characters long.
C21_DescriptionWithinLimit ==
    pc = "described" => Len(description) <= 255

\* A description of exactly 255 characters that went through the safety
\* truncation.
C21_Witness ==
    /\ pc = "described"
    /\ Len(description) = 255
    /\ description[255].line = "truncation"

\* C30: with uncommitted changes, the uncommitted line is left out exactly
\* when the remaining budget is below 30 characters.
C30_UncommittedLineOmittedBelowThirty ==
    (pc = "described" /\ description_input.has_uncommitted)
        => (HasUncommittedLine
               <=> SpaceForUncommitted(description_input.state, description_input) >= 30)


\* C28: in every payload the event-level url equals the pipeline url; while
\* the git commands answer the same, every payload carries the same url; the
\* url is the commit link when a repository and a commit hash are known and
\* the link built from the component slug and the run id otherwise.
C28_OneUrlPerRun ==
    /\ \A k \in 1..Len(payloads) :
          LET p == payloads[k]
          IN  /\ p.links.url = p.links.pipeline_url
              /\ IF github_repo # "none" /\ p.git.hash # "unknown"
                 THEN /\ p.links.url.host = "github.com"
                      /\ p.links.url.repo = github_repo
                      /\ p.links.url.commit \in {p.git.hash, p.git.head}
                      /\ p.links.url.commit # "failed"
                 ELSE /\ p.links.url.host = "localhost"
                      /\ p.links.url.slug = ComponentSlug
                      /\ p.links.url.run = deployment_run_id
    /\ \A j \in 1..Len(payloads) : \A k \in 1..Len(payloads) :
          payloads[j].git = payloads[k].git
             => payloads[j].links.url = payloads[k].links.url

\* Two payloads of different installations and states with the same commit
\* link.
C28_Witness ==
    /\ Len(payloads) = 2
    /\ payloads[1].event.componentId # payloads[2].event.componentId
    /\ payloads[1].event.state = "IN_PROGRESS"
    /\ payloads[2].event.state = "SUCCESSFUL"
    /\ payloads[1].git = payloads[2].git
    /\ payloads[1].links.url.host = "github.com"

\* C29: a payload has completedAt exactly when its state is not IN_PROGRESS,
\* and every payload carries the start time fixed in __init__.
C29_CompletedAtOnlyWhenTerminal ==
    \A k \in 1..Len(payloads) :
       /\ payloads[k].event.hasCompletedAt
             <=> payloads[k].event.state # "IN_PROGRESS"
       /\ payloads[k].links.startedAt = deployment_start_time

\* An IN_PROGRESS payload and a FAILED payload built at different clock
\* readings.
C29_Witness ==
    /\ Len(payloads) = 2
    /\ payloads[1].event.state = "IN_PROGRESS"
    /\ payloads[2].event.state = "FAILED"
    /\ payloads[2].event.updateSequenceNumber > payloads[1].event.updateSequenceNumber


\* ------------------------------------------------------- claims C31 - C40
\* The uncommitted line of the composed description.
UncommittedLine == SelectSeq(description, LAMBDA c : c.line = "uncommitted")

\* The number of files whose fragment is in the uncommitted line.
FilesShown ==
    Cardinality({ UncommittedLine[k].file : k \in 1..Len(UncommittedLine) }
                   \cap 1..Len(description_input.uncommitted.files))

\* C31: the uncommitted line is never longer than its budget, the file
\* fragments in it are the complete fragments of a prefix of the file list in
\* input order, and it ends with the omission marker when a file was left out.
C31_UncommittedLineGreedyPrefix ==
    (pc = "described" /\ HasUncommittedLine)
        => LET line == UncommittedLine
               files == description_input.uncommitted.files
               shown == FilesShown
           IN  /\ Len(line) <= SpaceForUncommitted(description_input.state,
                                                   description_input)
               /\ SelectSeq(line, LAMBDA c : c.file > 0) =
                     SelectSeq(JoinFiles(files, shown), LAMBDA c : c.file > 0)
               /\ shown < Len(files)
                     => /\ Len(line) >= 3
                        /\ \A k \in (Len(line) - 2)..Len(line) : line[k].file = -1

\* The first of two files is shown and the second is left out.
C31_Witness ==
    /\ pc = "described" /\ HasUncommittedLine
    /\ Len(description_input.uncommitted.files) = 2
    /\ FilesShown = 1

\* C32: when the user line alone fits into 255 characters, the composed
\* description ends with the complete user line, truncated or not.
C32_DescriptionEndsWithUserLine ==
    (pc = "described" /\ Len(UserLine(description_input)) <= 255)
        => LET n == Len(description)
               u == Len(UserLine(description_input))
           IN  /\ n > u
               /\ \A k \in (n - u + 1)..n : description[k].line = "user"
               /\ description[n - u].line = "separator"

\* C33: when every attempt of the trigger-endpoint lookup fails and every
\* installation accepts every submission, the run has made no migration
\* request, has submitted SUCCESSFUL to every installation and exits 0.
C33_LookupFailureStillSucceeds ==
    (AllAccepted /\ migration_outcome = "no_url")
        => /\ ~migration_invoked
           /\ \A i \in Range(installations) : EventsOf(i, "SUCCESSFUL") # {}
           /\ exit_code = 0

\* C34: the migration phase aborts the run exactly when the trigger answered
\* with a 5xx status.
C34_OnlyServerErrorAborts ==
    migration_outcome # "none"
        => (exc = "migration_failed" <=> migration_outcome = "5xx")

\* C34 amended: the migration phase aborts the run exactly when the trigger
\* answered with a 5xx status, with a status below 200, or with a 2xx status
\* and a JSON body that reports failure; after every other outcome (2xx with
\* a passing body or without JSON, 3xx, 4xx, transport error, no request made)
\* the run goes on to the SUCCESSFUL notification.
C34_AbortsOnlyOnReportedFailure ==
    migration_outcome # "none"
        => IF migration_outcome \in {"5xx", "1xx", "2xx_not_success",
                                     "2xx_bad_status", "2xx_pending"}
           THEN exc = "migration_failed" /\ ~migration_returned
           ELSE /\ exc # "migration_failed"
                /\ migration_returned
                /\ cur_state = "SUCCESSFUL" \/ "SUCCESSFUL" \in prep_error

\* A run whose trigger answered 4xx, which submitted SUCCESSFUL and exited 0.
C34_Witness ==
    /\ pc = "exited" /\ exit_code = 0
    /\ migration_outcome = "4xx"
    /\ ~NoEventOfState("SUCCESSFUL")

\* C35: deployed_version is unset unless the deploy step has succeeded, and
\* schema_version is unset unless the migration step got a passing answer
\* that carries a schema version.
C35_VersionsSetOnlyAfterSuccess ==
    /\ deployed_version # "none" => (deploy_started /\ deployment_succeeded)
    /\ schema_version # "none"
          => (migration_outcome = "2xx_ok_schema" /\ migration_returned)

\* C36: once the run is constructed, the number in deployment_run_id equals
\* base_sequence_number.
C36_RunIdEqualsBaseSequenceNumber ==
    pc # "main" => deployment_run_id = base_sequence_number

\* SUCCESSFUL and FAILED, the states that end a deployment.
Terminal(k) == events[k].payload.state \in {"SUCCESSFUL", "FAILED"}

\* C37: no installation is submitted two terminal events: not SUCCESSFUL and
\* FAILED, and not FAILED twice (the failure handler sends nothing to an
\* installation compensated during the IN_PROGRESS phase).
C37_AtMostOneTerminalEvent ==
    \A j \in 1..Len(events) : \A k \in (j + 1)..Len(events) :
       ~(events[j].inst = events[k].inst /\ Terminal(j) /\ Terminal(k))

\* A run aborted by the IN_PROGRESS phase after the compensating FAILED
\* events, the failure handler having run.
C37_Witness ==
    /\ pc = "exited" /\ exc = "send_failed" /\ ~in_progress_sent
    /\ \E k \in 1..Len(events) : events[k].payload.state = "FAILED"
    /\ exit_code = 1

\* The IN_PROGRESS loop has been left.
InProgressLoopLeft ==
    /\ ~dry_run /\ installations # <<>>
    /\ \/ pc \in {"compensate_loop", "validate"}
       \/ /\ needs_setup # <<>> \/ failures # <<>>
          /\ pc \in {"handle_failure", "exited"}

C39_EveryKeyRanked ==
    rank_result = "success"
        => \A k \in 2..Len(ordered_keys) :
              \E r \in 1..Len(rank_requests) :
                 /\ ordered_keys[k] \in Range(rank_requests[r].issues)
                 /\ \E a \in 1..(k - 1) :
                       ordered_keys[a] = rank_requests[r].rankAfterIssue

\* Position of the row with the given key in a list of rows.
PositionOf(rows, key) == CHOOSE k \in 1..Len(rows) : rows[k].key = key

\* The row has its parent among the rows.
HasParentIn(rows, r) == r.parent_key # 0 /\ r.parent_key \in keys_set(rows)

\* C40: the list returned is a permutation of the input; every issue whose
\* parent is in the input comes after that parent with no top-level issue
\* between them; issues with the same parent keep their input order.
C40_ChildrenFollowParents ==
    pc = "ordered"
        => /\ Len(ordered_issues) = Len(sorted_issues)
           /\ Range(ordered_issues) = Range(sorted_issues)
           /\ \A k \in 1..Len(ordered_issues) :
                 LET r == ordered_issues[k]
                 IN  HasParentIn(sorted_issues, r)
                        => LET p == PositionOf(ordered_issues, r.parent_key)
                           IN  /\ p < k
                               /\ \A m \in (p + 1)..k :
                                     HasParentIn(sorted_issues, ordered_issues[m])
           /\ \A j \in 1..Len(sorted_issues) : \A k \in (j + 1)..Len(sorted_issues) :
                 (sorted_issues[j].parent_key = sorted_issues[k].parent_key
                     /\ HasParentIn(sorted_issues, sorted_issues[j]))
                    => PositionOf(ordered_issues, sorted_issues[j].key)
                          < PositionOf(ordered_issues, sorted_issues[k].key)

\* A child listed before its parent, which is itself the child of an issue of
\* the input, next to an issue whose parent is outside the input.
C40_Witness ==
    /\ pc = "ordered"
    /\ \E j, k \in 1..Len(sorted_issues) :
          /\ j < k
          /\ sorted_issues[j].parent_key = sorted_issues[k].key
          /\ HasParentIn(sorted_issues, sorted_issues[k])
    /\ \E k \in 1..Len(sorted_issues) : sorted_issues[k].parent_key = -1

====
